---- MODULE Spec2Model ----
(***************************************************************************)
(* json-server-rs: a directory of JSON documents served as a read-only     *)
(* HTTP API (src/src/main.rs).                                             *)
(*                                                                         *)
(* Strings are sequences of atoms (one atom per character; a fixed         *)
(* message such as "file not found" is kept as one atom).  A path string   *)
(* is resolved by the operating system into its components; the file       *)
(* system maps resolved paths to nodes.                                    *)
(***************************************************************************)
EXTENDS Naturals, Sequences, FiniteSets, TLC

VARIABLES
    pc,            \* "start" | "serving" | "exited" | "test" | "tested"
    args,          \* Args: [data_dir]
    fs,            \* the file system: resolved path -> node
    shared_state,  \* AppState: [data_dir, files]
    files_result,  \* the eyre::Result of the last get_json_files call
    last,          \* the last request handled, with its response
    snapshot,      \* the data directory as the last get_json_files call saw it
    nchanges,      \* file-system changes made while serving
    conns          \* the requests being handled at the same time, by connection

vars == <<pc, args, fs, shared_state, files_result, last, snapshot, nchanges, conns>>

(***************************************************************************)
(* Bounds                                                                  *)
(***************************************************************************)
\* children of the scanned directory in the index-builder specification
MaxEntries == 2
\* file-system changes made by the environment while the server runs
MaxFsChanges == 2
\* length of the name list handed to the handlers under test
MaxFiles == 2
\* connections whose requests are handled at the same time
MaxConns == 2

(***************************************************************************)
(* Strings                                                                 *)
(***************************************************************************)
Range(s) == {s[i] : i \in 1..Len(s)}

\* a byte sequence that is not valid UTF-8
InvalidByte == "<FF>"

IsPrefix(p, s) == Len(p) <= Len(s) /\ SubSeq(s, 1, Len(p)) = p

\* str::ends_with(char)
ends_with(s, c) == Len(s) > 0 /\ s[Len(s)] = c

\* str::replace(c, ""): every occurrence of c is removed
replace(s, c) == SelectSeq(s, LAMBDA x : x # c)

\* the position of the last c in s, 0 when there is none
RECURSIVE LastIndexFrom(_, _, _)
LastIndexFrom(s, c, i) ==
    IF i = 0 THEN 0
    ELSE IF s[i] = c THEN i ELSE LastIndexFrom(s, c, i - 1)

LastIndex(s, c) == LastIndexFrom(s, c, Len(s))

\* OsStr::to_str: None (FALSE) when the bytes are not valid UTF-8
to_str_ok(s) == InvalidByte \notin Range(s)

json == <<"j", "s", "o", "n">>
dot_json == <<".">> \o json

(***************************************************************************)
(* Paths                                                                   *)
(***************************************************************************)
\* std::path::Path::extension and file_stem, both through rsplit_file_at_dot:
\* the name is split at its last '.', unless it has none or only a leading one
rsplit_file_at_dot(name) ==
    LET i == LastIndex(name, ".")
    IN  IF name = <<".", ".">> \/ i <= 1
        THEN [before |-> name, has_ext |-> FALSE, after |-> <<>>]
        ELSE [before |-> SubSeq(name, 1, i - 1), has_ext |-> TRUE,
              after |-> SubSeq(name, i + 1, Len(name))]

has_extension(name) == rsplit_file_at_dot(name).has_ext
extension(name) == rsplit_file_at_dot(name).after
file_stem(name) == rsplit_file_at_dot(name).before

\* the pieces of a path string between its '/' separators
RECURSIVE SplitAt(_, _, _)
SplitAt(s, i, cur) ==
    IF i > Len(s) THEN <<cur>>
    ELSE IF s[i] = "/" THEN <<cur>> \o SplitAt(s, i + 1, <<>>)
    ELSE SplitAt(s, i + 1, Append(cur, s[i]))

\* how the operating system walks a relative path string: empty pieces
\* (doubled or trailing separators) and "." name no directory
Components(p) ==
    SelectSeq(SplitAt(p, 1, <<>>), LAMBDA c : c # <<>> /\ c # <<".">>)

(***************************************************************************)
(* The file system                                                         *)
(***************************************************************************)
Dir(perm) == [kind |-> "dir", perm |-> perm, content |-> <<>>]
File(perm, content) == [kind |-> "file", perm |-> perm, content |-> content]

Exists(f, p) == Components(p) \in DOMAIN f

\* the names of the direct children of directory d (a resolved path)
Children(f, d) ==
    {q[Len(q)] : q \in {r \in DOMAIN f : Len(r) = Len(d) + 1
                                        /\ SubSeq(r, 1, Len(d)) = d}}

\* fs::metadata(p).is_ok()
metadata_is_ok(f, p) == Exists(f, p)

\* fs::read_dir(p): fails unless p is a directory that may be listed
read_dir_ok(f, p) ==
    /\ Exists(f, p)
    /\ f[Components(p)].kind = "dir"
    /\ f[Components(p)].perm

\* fs::read_to_string(p): the text of a readable regular file that is valid
\* UTF-8; any other case is an error
read_to_string(f, p) ==
    LET c == Components(p)
    IN  IF /\ c \in DOMAIN f
           /\ f[c].kind = "file"
           /\ f[c].perm
           /\ \A i \in 1..Len(f[c].content) : f[c].content[i].k # "b"
        THEN [ok |-> TRUE, contents |-> f[c].content]
        ELSE [ok |-> FALSE, contents |-> <<>>]

(***************************************************************************)
(* get_json_files                                                          *)
(***************************************************************************)
Ok(v) == [ok |-> TRUE, files |-> v, err |-> ""]
Err(e) == [ok |-> FALSE, files |-> <<>>, err |-> e]

\* one directory entry as the read_dir iterator yields it
DirEntry(name) == [io_ok |-> TRUE, name |-> name]
EntryError == [io_ok |-> FALSE, name |-> <<>>]

\* a loop that passes over a .json name it cannot decode
RECURSIVE for_entries_skip_undecodable(_, _, _)
for_entries_skip_undecodable(entries, i, json_files) ==
    IF i > Len(entries) THEN Ok(json_files)
    ELSE LET entry == entries[i]
         IN  IF ~entry.io_ok THEN Err("Failed to read directory entry")
             ELSE IF /\ has_extension(entry.name) /\ extension(entry.name) = json
                     /\ to_str_ok(file_stem(entry.name))
             THEN for_entries_skip_undecodable(
                      entries, i + 1, Append(json_files, file_stem(entry.name)))
             ELSE for_entries_skip_undecodable(entries, i + 1, json_files)

\* the for loop over the entries, json_files being the vector so far
RECURSIVE for_entries(_, _, _)
for_entries(entries, i, json_files) ==
    IF i > Len(entries) THEN Ok(json_files)
    ELSE LET entry == entries[i]
         IN  IF ~entry.io_ok THEN Err("Failed to read directory entry")
             ELSE IF has_extension(entry.name) /\ extension(entry.name) = json
             THEN IF ~to_str_ok(file_stem(entry.name))
                  THEN Err("Invalid filename encoding")
                  ELSE for_entries(entries, i + 1,
                                   Append(json_files, file_stem(entry.name)))
             ELSE for_entries(entries, i + 1, json_files)

\* entries: what the read_dir iterator yields, in its order
get_json_files(f, data_dir, entries) ==
    IF ~read_dir_ok(f, data_dir) THEN Err("Failed to read directory")
    ELSE for_entries(entries, 1, <<>>)

\* the sequences the read_dir iterator may yield for directory p: its
\* children in any order, any one of them possibly failing with an I/O error
Perms(S) == {s \in [1..Cardinality(S) -> S] : \A x \in S : \E i \in DOMAIN s : s[i] = x}

Enumerations(f, p) ==
    LET names == Children(f, Components(p))
    IN  {[i \in 1..Len(order) |->
            IF i = bad THEN EntryError ELSE DirEntry(order[i])] :
         order \in Perms(names), bad \in 0..Cardinality(names)}

(***************************************************************************)
(* JSON text and values (serde_json)                                       *)
(*                                                                         *)
(* A text is a sequence of lexical tokens: punctuation "p", a number       *)
(* literal "n", a string literal "s", white space "w", any other           *)
(* characters "x", and bytes that are not UTF-8 "b".                       *)
(***************************************************************************)
P(c) == [k |-> "p", v |-> <<c>>]
N(d) == [k |-> "n", v |-> <<d>>]
S(s) == [k |-> "s", v |-> s]
WS == [k |-> "w", v |-> <<" ">>]
Junk(w) == [k |-> "x", v |-> <<w>>]
BadUtf8 == [k |-> "b", v |-> <<InvalidByte>>]

\* serde_json::Value
Null == [t |-> "null", v |-> <<>>]
Num(d) == [t |-> "num", v |-> d]
StrV(s) == [t |-> "str", v |-> s]
Arr(elems) == [t |-> "arr", v |-> elems]
Obj(members) == [t |-> "obj", v |-> members]

\* the object keys of the model in the order a serde_json Map iterates them
KeyOrder == << <<"error">>, <<"k">>, <<"n">> >>

PFail(e, i) == [ok |-> FALSE, val |-> Null, nxt |-> i, err |-> e]
POk(v, i) == [ok |-> TRUE, val |-> v, nxt |-> i, err |-> ""]

RECURSIVE skip_ws(_, _)
skip_ws(t, i) == IF i <= Len(t) /\ t[i].k = "w" THEN skip_ws(t, i + 1) ELSE i

RECURSIVE parse_value(_, _)
RECURSIVE parse_elems(_, _, _)
RECURSIVE parse_members(_, _, _)

parse_value(t, i0) ==
    LET i == skip_ws(t, i0)
    IN  IF i > Len(t) THEN PFail("EOF while parsing a value", i)
        ELSE IF t[i].k = "n" THEN POk(Num(t[i].v), i + 1)
        ELSE IF t[i].k = "s" THEN POk(StrV(t[i].v), i + 1)
        ELSE IF t[i] = P("[")
        THEN LET j == skip_ws(t, i + 1)
             IN  IF j <= Len(t) /\ t[j] = P("]") THEN POk(Arr(<<>>), j + 1)
                 ELSE parse_elems(t, j, <<>>)
        ELSE IF t[i] = P("{")
        THEN LET j == skip_ws(t, i + 1)
             IN  IF j <= Len(t) /\ t[j] = P("}") THEN POk(Obj(<<>>), j + 1)
                 ELSE parse_members(t, j, <<>>)
        ELSE PFail("expected value", i)

\* the elements of an array, a value being due at i
parse_elems(t, i, acc) ==
    IF i <= Len(t) /\ t[i] = P("]") THEN PFail("trailing comma", i)
    ELSE LET r == parse_value(t, i)
         IN  IF ~r.ok THEN r
             ELSE LET j == skip_ws(t, r.nxt)
                  IN  IF j > Len(t) THEN PFail("EOF while parsing a list", j)
                      ELSE IF t[j] = P(",")
                      THEN parse_elems(t, skip_ws(t, j + 1), Append(acc, r.val))
                      ELSE IF t[j] = P("]") THEN POk(Arr(Append(acc, r.val)), j + 1)
                      ELSE PFail("expected , or ]", j)

\* the members of an object, a key being due at i; a repeated key keeps its
\* last value
parse_members(t, i, acc) ==
    IF i > Len(t) THEN PFail("EOF while parsing an object", i)
    ELSE IF t[i] = P("}") THEN PFail("trailing comma", i)
    ELSE IF t[i].k # "s" THEN PFail("key must be a string", i)
    ELSE LET c == skip_ws(t, i + 1)
         IN  IF c > Len(t) THEN PFail("EOF while parsing an object", c)
             ELSE IF t[c] # P(":") THEN PFail("expected :", c)
             ELSE LET r == parse_value(t, c + 1)
                  IN  IF ~r.ok THEN r
                      ELSE LET j == skip_ws(t, r.nxt)
                               m == (t[i].v :> r.val) @@ acc
                           IN  IF j > Len(t)
                               THEN PFail("EOF while parsing an object", j)
                               ELSE IF t[j] = P(",")
                               THEN parse_members(t, skip_ws(t, j + 1), m)
                               ELSE IF t[j] = P("}") THEN POk(Obj(m), j + 1)
                               ELSE PFail("expected , or }", j)

\* serde_json::from_str::<Value>: one value, then nothing but white space
from_str(t) ==
    LET r == parse_value(t, 1)
    IN  IF ~r.ok THEN r
        ELSE IF skip_ws(t, r.nxt) <= Len(t)
        THEN PFail("trailing characters", skip_ws(t, r.nxt))
        ELSE r

\* the compact text serde_json writes for a value (the Json response body)
RECURSIVE to_string(_)
RECURSIVE join_elems(_, _)
RECURSIVE join_members(_, _, _)

to_string(v) ==
    IF v.t = "num" THEN <<[k |-> "n", v |-> v.v]>>
    ELSE IF v.t = "str" THEN <<S(v.v)>>
    ELSE IF v.t = "arr" THEN <<P("[")>> \o join_elems(v.v, 1) \o <<P("]")>>
    ELSE IF v.t = "obj"
    THEN <<P("{")>>
         \o join_members(v.v, SelectSeq(KeyOrder, LAMBDA key : key \in DOMAIN v.v), 1)
         \o <<P("}")>>
    ELSE <<Junk("null")>>

join_elems(elems, i) ==
    IF i > Len(elems) THEN <<>>
    ELSE (IF i > 1 THEN <<P(",")>> ELSE <<>>)
         \o to_string(elems[i]) \o join_elems(elems, i + 1)

join_members(members, keys, i) ==
    IF i > Len(keys) THEN <<>>
    ELSE (IF i > 1 THEN <<P(",")>> ELSE <<>>)
         \o <<S(keys[i]), P(":")>> \o to_string(members[keys[i]])
         \o join_members(members, keys, i + 1)

\* json!({"error": msg})
error_json(msg) == Obj(<<"error">> :> StrV(<<msg>>))

\* json!(files): the array of the names as strings
files_json(files) == Arr([i \in 1..Len(files) |-> StrV(files[i])])

(***************************************************************************)
(* Responses and handlers                                                  *)
(***************************************************************************)
\* a body that is text, not JSON
Text(w) == <<Junk(w)>>

Response(status, ctype, body) == [status |-> status, ctype |-> ctype, body |-> body]

\* (StatusCode, axum::Json(value))
Json(status, value) == Response(status, "application/json", to_string(value))

\* what a handler gives back: the response and the paths it read on the way
Handled(resp, reads) == [resp |-> resp, reads |-> reads]

root == Response(200, "text/html", Text("<h1>Hello, World!</h1>"))

health_check == Response(200, "text/plain", Text("ok"))

\* a fallback shaped like the resource errors
handler_404_json == Json(404, error_json("not found"))

handler_404 == Response(404, "text/plain", Text("nothing to see here"))

\* a listing that loses the last name
get_apis_drop_last(state) ==
    IF state.files = <<>>
    THEN Json(404, error_json("not found"))
    ELSE Json(200, files_json(SubSeq(state.files, 1, Len(state.files) - 1)))

get_apis(state) ==
    IF state.files = <<>>
    THEN Json(404, error_json("not found"))
    ELSE Json(200, files_json(state.files))

\* Vec::contains
contains(files, file) == \E i \in 1..Len(files) : files[i] = file

\* format!("{}/{}.json", state.data_dir, file)
serve_path(data_dir, file) == data_dir \o <<"/">> \o file \o dot_json

\* a handler that reads the file before it looks the name up
get_serve_json_read_first(state, f, file) ==
    LET path == serve_path(state.data_dir, file)
        contents == read_to_string(f, path)
        parsed == from_str(contents.contents)
    IN  IF ~contains(state.files, file)
        THEN Handled(Json(404, error_json("file not found")), <<path>>)
        ELSE Handled(
                 IF contents.ok
                 THEN IF parsed.ok
                      THEN Json(200, parsed.val)
                      ELSE Json(500, error_json(parsed.err))
                 ELSE Json(500, error_json("Failed to read file")),
                 <<path>>)

get_serve_json(state, f, file) ==
    IF ~contains(state.files, file)
    THEN Handled(Json(404, error_json("file not found")), <<>>)
    ELSE LET path == serve_path(state.data_dir, file)
             contents == read_to_string(f, path)
             parsed == from_str(contents.contents)
         IN  Handled(
                 IF contents.ok
                 THEN IF parsed.ok
                      THEN Json(200, parsed.val)
                      ELSE Json(500, error_json(parsed.err))
                 ELSE Json(500, error_json("Failed to read file")),
                 <<path>>)

(***************************************************************************)
(* The router                                                              *)
(***************************************************************************)
route_root == <<"/">>
route_health_check == <<"/", "_health_check">>
route_api == <<"/", "api">>
route_api_slash == <<"/", "api", "/">>

\* "/api/{file}": one more segment, not empty, after "/api/"
matches_file_route(path) ==
    /\ IsPrefix(route_api_slash, path)
    /\ Len(path) > Len(route_api_slash)
    /\ "/" \notin Range(SubSeq(path, Len(route_api_slash) + 1, Len(path)))

\* Path(JsonPathParams { file })
file_param(path) == SubSeq(path, Len(route_api_slash) + 1, Len(path))

matches_route(path) ==
    \/ path \in {route_root, route_health_check, route_api, route_api_slash}
    \/ matches_file_route(path)

\* a route declared with get(..) answers other methods itself: 405, no body
method_not_allowed == Response(405, "", <<>>)

\* Router::route .. fallback: the path picks the route, then the method
\* router of that route picks the handler (HEAD is outside the model)
router(state, f, req) ==
    IF ~matches_route(req.path) THEN Handled(handler_404, <<>>)
    ELSE IF req.method # "GET" THEN Handled(method_not_allowed, <<>>)
    ELSE IF req.path = route_root THEN Handled(root, <<>>)
    ELSE IF req.path = route_health_check THEN Handled(health_check, <<>>)
    ELSE IF req.path \in {route_api, route_api_slash}
    THEN Handled(get_apis(state), <<>>)
    ELSE get_serve_json(state, f, file_param(req.path))

(***************************************************************************)
(* The inputs of the model                                                 *)
(***************************************************************************)
\* --data-dir as given on the command line: d, d/, ./d and ./d/
DataDirs == { <<"d">>, <<"d", "/">>, <<".", "/", "d">>, <<".", "/", "d", "/">> }

\* all of DataDirs name this directory
TheDir == << <<"d">> >>

\* the directory named by a configured path with every '/' taken out
OtherDir == << <<".", "d">> >>

name_a == <<"a">>
name_b == <<"b">>
name_e == <<"e">>

\* file contents: [1, 2] and {"k": 1} are JSON, { invalid json } is not,
\* and the last is not even text; Texts are the contents a file is given
TArray == <<P("["), N("1"), P(","), WS, N("2"), P("]")>>
TObject == <<P("{"), S(<<"k">>), P(":"), WS, N("1"), P("}")>>
TInvalid == <<P("{"), WS, Junk("invalid json"), WS, P("}")>>
TBinary == <<BadUtf8>>

Texts == {TArray, TInvalid, TBinary}

\* a child of a directory: the nodes it adds, by path below the directory
Child(name, node) == { <<<<name>>, node>> }
SubdirWith(name, inner, node) ==
    { <<<<name>>, Dir(TRUE)>>, <<<<name, inner>>, node>> }

TopName(child) == (CHOOSE pr \in child : Len(pr[1]) = 1)[1][1]

\* the directories with at most max children out of a catalogue
Trees(catalogue, max) ==
    { UNION K : K \in { K \in SUBSET catalogue :
                          /\ Cardinality(K) <= max
                          /\ \A x, y \in K : x # y => TopName(x) # TopName(y) } }

\* the file system holding directory dir with the given nodes below it
MkFs(dir, pairs) ==
    [p \in {dir} \cup {dir \o pr[1] : pr \in pairs} |->
        IF p = dir THEN Dir(TRUE)
        ELSE (CHOOSE pr \in pairs : dir \o pr[1] = p)[2]]

\* a data directory that is missing, is a regular file, or may not be listed
BrokenRoots ==
    { <<>>, (TheDir :> File(TRUE, <<>>)),
      (TheDir :> Dir(FALSE)) @@ MkFs(TheDir, Child(name_a \o dot_json, File(TRUE, TArray))) }

\* what the data directory of a server may hold
ServerCatalogue ==
    { Child(name_a \o dot_json, File(TRUE, c)) : c \in Texts }
    \cup { Child(name_b \o dot_json, File(TRUE, TObject)) }

\* what may lie beside the data directory
Beside == { <<>>, MkFs(OtherDir, Child(name_a \o dot_json, File(TRUE, TObject))) }

ServerFs ==
    { tree @@ other :
        tree \in BrokenRoots \cup { MkFs(TheDir, t) : t \in Trees(ServerCatalogue, MaxEntries) },
        other \in Beside }

\* what the directory handed to get_json_files may hold
IndexCatalogue ==
    { Child(name, File(TRUE, TArray)) :
        name \in { name_a \o dot_json, name_b \o dot_json,
                   <<"a", ".", "b">> \o dot_json,
                   <<"c", ".", "J", "S", "O", "N">>,
                   <<"c", ".", "J", "s", "o", "n">>,
                   <<"c", ".", "t", "x", "t">>,
                   <<"n">>, dot_json, json,
                   <<InvalidByte>> \o dot_json,
                   <<InvalidByte, ".", "t", "x", "t">> } }
    \cup { Child(name_e \o dot_json, Dir(TRUE)),
           SubdirWith(<<"s", "u", "b">>, <<"s">> \o dot_json, File(TRUE, TArray)) }

IndexFs ==
    BrokenRoots \cup { MkFs(TheDir, t) : t \in Trees(IndexCatalogue, MaxEntries) }

\* requests
Paths ==
    { route_root, route_health_check, route_api, route_api_slash,
      route_api_slash \o name_a, route_api_slash \o name_b,
      route_api_slash \o <<"A">>, route_api_slash \o name_a \o dot_json,
      route_api_slash \o name_a \o <<"/">> \o name_b, <<"/", "x">> }
Requests ==
    [method : {"GET"}, path : Paths]
    \cup [method : {"POST"},
          path : {route_api, route_api_slash \o name_a, <<"/", "x">>}]

\* the names a list of files handed to the handlers is made of
Names == {name_a, name_b}
FileLists == UNION { [1..n -> Names] : n \in 0..MaxFiles }

(***************************************************************************)
(* State                                                                   *)
(***************************************************************************)
NoState == [data_dir |-> <<>>, files |-> <<>>]
NoResult == [ok |-> FALSE, files |-> <<>>, err |-> "not called"]
NoSnapshot == [entries |-> <<>>, kinds |-> <<>>]
NoRequest == [method |-> "", path |-> <<>>]
NoLast == [req |-> NoRequest, resp |-> Response(0, "", <<>>), reads |-> <<>>,
           backing |-> [exists |-> FALSE, ok |-> FALSE, contents |-> <<>>]]

\* a connection: the request on it, how far its handler is, the file
\* contents the handler holds, what its own read returned, and the responses
\* written to it
NoRead == [ok |-> FALSE, contents |-> <<>>]
Idle == [stage |-> "idle", req |-> NoRequest, contents |-> NoRead,
         seen |-> NoRead, resps |-> <<>>]
Conns == 1..MaxConns
NoConns == [id \in Conns |-> Idle]

\* the directory as it is when it is scanned: the entries in the order they
\* are yielded and the kind of each child
Snapshot(f, dir, entries) ==
    [entries |-> entries,
     kinds |-> [n \in Children(f, Components(dir)) |->
                   f[Components(dir) \o <<n>>].kind]]

\* <name>.json in the configured data directory, and what reading it gives
backing_path(file) == args.data_dir \o <<"/">> \o file \o dot_json

backing_file(f, file) ==
    [exists |-> Exists(f, backing_path(file)),
     ok |-> read_to_string(f, backing_path(file)).ok,
     contents |-> read_to_string(f, backing_path(file)).contents]

(***************************************************************************)
(* The server: startup, requests, and the file system changing under it    *)
(***************************************************************************)
Init ==
    /\ pc = "start"
    /\ args \in [data_dir : DataDirs]
    /\ fs \in ServerFs
    /\ shared_state = NoState
    /\ files_result = NoResult
    /\ last = NoLast
    /\ snapshot = NoSnapshot
    /\ nchanges = 0
    /\ conns = NoConns

\* the data_dir kept in AppState: "When the data_dir ends with a /, remove it"
state_data_dir(data_dir) ==
    IF ends_with(data_dir, "/") THEN replace(data_dir, "/") ELSE data_dir

\* a startup that binds the listener whatever the scan returned
main_serves_empty ==
    /\ pc = "start"
    /\ IF ~metadata_is_ok(fs, args.data_dir)
       THEN /\ pc' = "exited"
            /\ UNCHANGED <<shared_state, files_result, snapshot>>
       ELSE \E entries \in Enumerations(fs, args.data_dir) :
              LET files == get_json_files(fs, args.data_dir, entries)
              IN  /\ files_result' = files
                  /\ snapshot' = Snapshot(fs, args.data_dir, entries)
                  /\ IF ~files.ok
                     THEN /\ pc' = "exited"
                          /\ UNCHANGED shared_state
                     ELSE /\ pc' = "serving"
                          /\ shared_state' =
                               [data_dir |-> state_data_dir(args.data_dir),
                                files |-> files.files]
    /\ UNCHANGED <<args, fs, last, nchanges, conns>>

\* main, up to the point where the listener is bound or the process ends
main ==
    /\ pc = "start"
    /\ IF ~metadata_is_ok(fs, args.data_dir)
       THEN /\ pc' = "exited"
            /\ UNCHANGED <<shared_state, files_result, snapshot>>
       ELSE \E entries \in Enumerations(fs, args.data_dir) :
              LET files == get_json_files(fs, args.data_dir, entries)
              IN  /\ files_result' = files
                  /\ snapshot' = Snapshot(fs, args.data_dir, entries)
                  /\ IF ~files.ok \/ files.files = <<>>
                     THEN /\ pc' = "exited"
                          /\ UNCHANGED shared_state
                     ELSE /\ pc' = "serving"
                          /\ shared_state' =
                               [data_dir |-> state_data_dir(args.data_dir),
                                files |-> files.files]
    /\ UNCHANGED <<args, fs, last, nchanges, conns>>

\* one request, from the router to the response
Request(req) ==
    /\ pc = "serving"
    /\ LET h == router(shared_state, fs, req)
       IN  last' = [req |-> req, resp |-> h.resp, reads |-> h.reads,
                    backing |-> IF matches_file_route(req.path)
                                THEN backing_file(fs, file_param(req.path))
                                ELSE NoLast.backing]
    /\ UNCHANGED <<pc, args, fs, shared_state, files_result, snapshot, nchanges, conns>>

\* the files of the data directory that come and go while the server runs
ChangingFiles == { TheDir \o <<n \o dot_json>> : n \in Names }

\* somebody writes a file in the data directory (a new one, or new content)
FsWrite ==
    /\ pc = "serving"
    /\ nchanges < MaxFsChanges
    /\ \E p \in ChangingFiles, c \in Texts :
         /\ TheDir \in DOMAIN fs /\ fs[TheDir].kind = "dir"
         /\ p \in DOMAIN fs => fs[p].kind = "file" /\ fs[p].content # c
         /\ fs' = (p :> File(TRUE, c)) @@ fs
    /\ nchanges' = nchanges + 1
    /\ UNCHANGED <<pc, args, shared_state, files_result, last, snapshot, conns>>

\* somebody removes a file
FsDelete ==
    /\ pc = "serving"
    /\ nchanges < MaxFsChanges
    /\ \E p \in ChangingFiles \cap DOMAIN fs :
         /\ fs[p].kind = "file"
         /\ fs' = [q \in DOMAIN fs \ {p} |-> fs[q]]
    /\ nchanges' = nchanges + 1
    /\ UNCHANGED <<pc, args, shared_state, files_result, last, snapshot, conns>>

\* somebody takes away or gives back the permission to read a file
FsChmod ==
    /\ pc = "serving"
    /\ nchanges < MaxFsChanges
    /\ \E p \in ChangingFiles \cap DOMAIN fs :
         /\ fs[p].kind = "file"
         /\ fs' = [fs EXCEPT ![p].perm = ~@]
    /\ nchanges' = nchanges + 1
    /\ UNCHANGED <<pc, args, shared_state, files_result, last, snapshot, conns>>

Next ==
    \/ main
    \/ \E req \in Requests : Request(req)
    \/ FsWrite
    \/ FsDelete
    \/ FsChmod

Spec == Init /\ [][Next]_vars

(***************************************************************************)
(* Requests handled at the same time: each handler runs as its own task,   *)
(* and the tasks and the file system changes interleave between the        *)
(* membership check, the read and the response                             *)
(***************************************************************************)
ConcRequests ==
    [method : {"GET"},
     path : {route_api, route_api_slash \o name_a, route_api_slash \o name_b,
             <<"/", "x">>}]

\* the request is one that get_serve_json goes to the file system for
reads_file(state, req) ==
    /\ req.method = "GET"
    /\ matches_file_route(req.path)
    /\ contains(state.files, file_param(req.path))

\* a handler that parses what the first reading request holds
contents_shared(c, id) ==
    LET readers == {j \in Conns : c[j].stage = "read"}
    IN  c[CHOOSE j \in readers : \A k \in readers : j <= k].contents

\* the contents the handler of connection id holds: those it read itself
contents_for(c, id) == c[id].contents

\* get_serve_json from the result of the read on: parse and answer
serve_contents(contents) ==
    IF contents.ok
    THEN IF from_str(contents.contents).ok
         THEN Json(200, from_str(contents.contents).val)
         ELSE Json(500, error_json(from_str(contents.contents).err))
    ELSE Json(500, error_json("Failed to read file"))

\* the data directories the concurrent server starts on
ConcFs ==
    { MkFs(TheDir, Child(name_a \o dot_json, File(TRUE, TArray))),
      MkFs(TheDir, Child(name_a \o dot_json, File(TRUE, TInvalid))) }

InitConc ==
    /\ Init
    /\ fs \in ConcFs

\* axum::serve takes a request off a connection and spawns its handler
accept(id, req) ==
    /\ pc = "serving"
    /\ conns[id].stage = "idle"
    /\ conns' = [conns EXCEPT ![id] = [Idle EXCEPT !.stage = "received", !.req = req]]
    /\ UNCHANGED <<pc, args, fs, shared_state, files_result, last, snapshot, nchanges>>

\* the router and, for a fetch, the membership check: every request that
\* needs no file is answered here
dispatch(id) ==
    /\ conns[id].stage = "received"
    /\ conns' = [conns EXCEPT ![id] =
                   IF reads_file(shared_state, conns[id].req)
                   THEN [@ EXCEPT !.stage = "found"]
                   ELSE [@ EXCEPT !.stage = "done",
                                  !.resps = Append(@, router(shared_state, fs, conns[id].req).resp)]]
    /\ UNCHANGED <<pc, args, fs, shared_state, files_result, last, snapshot, nchanges>>

\* fs::read_to_string of the path built from the name
read(id) ==
    /\ conns[id].stage = "found"
    /\ LET contents == read_to_string(
                           fs, serve_path(shared_state.data_dir,
                                          file_param(conns[id].req.path)))
       IN  conns' = [conns EXCEPT ![id] =
                       [@ EXCEPT !.stage = "read", !.contents = contents,
                                 !.seen = contents]]
    /\ UNCHANGED <<pc, args, fs, shared_state, files_result, last, snapshot, nchanges>>

\* the parse and the response of a fetch
respond(id) ==
    /\ conns[id].stage = "read"
    /\ conns' = [conns EXCEPT ![id] =
                   [@ EXCEPT !.stage = "done",
                             !.resps = Append(@, serve_contents(contents_for(conns, id)))]]
    /\ UNCHANGED <<pc, args, fs, shared_state, files_result, last, snapshot, nchanges>>

\* the response is out and the connection takes the next request
close(id) ==
    /\ conns[id].stage = "done"
    /\ conns' = [conns EXCEPT ![id] = Idle]
    /\ UNCHANGED <<pc, args, fs, shared_state, files_result, last, snapshot, nchanges>>

NextConc ==
    \/ main
    \/ \E id \in Conns, req \in ConcRequests : accept(id, req)
    \/ \E id \in Conns : dispatch(id)
    \/ \E id \in Conns : read(id)
    \/ \E id \in Conns : respond(id)
    \/ \E id \in Conns : close(id)
    \/ FsWrite
    \/ FsDelete
    \/ FsChmod

SpecConc == InitConc /\ [][NextConc]_vars

(***************************************************************************)
(* The handlers on a state built by hand (create_test_app): any list of    *)
(* names, the empty one too, over any data directory                       *)
(***************************************************************************)
InitTest ==
    /\ pc = "serving"
    /\ args \in [data_dir : DataDirs]
    /\ fs \in ServerFs
    /\ shared_state \in [data_dir : {args.data_dir}, files : FileLists]
    /\ files_result = NoResult
    /\ last = NoLast
    /\ snapshot = NoSnapshot
    /\ nchanges = 0
    /\ conns = NoConns

NextTest == \E req \in Requests : Request(req)

SpecTest == InitTest /\ [][NextTest]_vars

(***************************************************************************)
(* get_json_files alone, on any directory                                  *)
(***************************************************************************)
InitIndex ==
    /\ pc = "test"
    /\ args \in [data_dir : DataDirs]
    /\ fs \in IndexFs
    /\ shared_state = NoState
    /\ files_result = NoResult
    /\ last = NoLast
    /\ snapshot = NoSnapshot
    /\ nchanges = 0
    /\ conns = NoConns

call_get_json_files ==
    /\ pc = "test"
    /\ \E entries \in Enumerations(fs, args.data_dir) :
         /\ files_result' = get_json_files(fs, args.data_dir, entries)
         /\ snapshot' = Snapshot(fs, args.data_dir, entries)
    /\ pc' = "tested"
    /\ UNCHANGED <<args, fs, shared_state, last, nchanges, conns>>

NextIndex == call_get_json_files

SpecIndex == InitIndex /\ [][NextIndex]_vars

(***************************************************************************)
(* Properties                                                              *)
(***************************************************************************)
Handling == pc = "serving" /\ last.req # NoRequest

\* last is a GET of /api/{name}
Fetch == Handling /\ last.req.method = "GET" /\ matches_file_route(last.req.path)

\* last is a GET of /api or /api/
Listing == Handling /\ last.req.method = "GET"
           /\ last.req.path \in {route_api, route_api_slash}

Name == file_param(last.req.path)
Indexed(n) == n \in Range(shared_state.files)

\* the bytes of {"error":"<msg>"}
ErrorBody(msg) == <<P("{"), S(<<"error">>), P(":"), S(<<msg>>), P("}")>>
JsonError(status, msg) == Response(status, "application/json", ErrorBody(msg))

\* the value a response body or a file content stands for
ValueOf(text) == from_str(text).val
IsJson(text) == from_str(text).ok

\* C1: every fetch of an indexed name whose backing file <name>.json in the
\* data directory is readable and holds valid JSON V is answered 200 with a
\* body equal to V
C1_FetchReturnsDocument ==
    (Fetch /\ Indexed(Name) /\ last.backing.ok /\ IsJson(last.backing.contents))
    => /\ last.resp.status = 200
       /\ IsJson(last.resp.body)
       /\ ValueOf(last.resp.body) = ValueOf(last.backing.contents)

\* C2: a fetch of a name that is not verbatim in the index is answered 404
\* {"error":"file not found"} without any read, and a path is only ever read
\* for a fetch of a name of the index, that name being the one in the path
C2_UnknownNameNotFound ==
    /\ (Fetch /\ ~Indexed(Name))
       => last.resp = JsonError(404, "file not found") /\ last.reads = <<>>
    /\ (Handling /\ last.reads # <<>>)
       => /\ Fetch /\ Indexed(Name)
          /\ last.reads = << shared_state.data_dir \o <<"/">> \o Name \o dot_json >>

\* a name that differs from an indexed one only in case is asked for
C2_Witness ==
    /\ Fetch /\ Name = <<"A">> /\ Indexed(name_a)
    /\ last.resp.status = 404

\* the children of the scanned directory, and those named <n>.json, n not
\* empty
Scanned == DOMAIN snapshot.kinds
EndsWithDotJson(m) ==
    Len(m) > Len(dot_json) /\ SubSeq(m, Len(m) - Len(dot_json) + 1, Len(m)) = dot_json
WithoutDotJson(m) == SubSeq(m, 1, Len(m) - Len(dot_json))
Count(seq, x) == Cardinality({i \in 1..Len(seq) : seq[i] = x})

\* C3: the index built from a directory holds a name n exactly once when a
\* regular file n.json is a direct child of the directory, and not at all
\* otherwise: other extensions, subdirectories and the files in them add
\* nothing
C3_IndexIsExactlyJsonFiles ==
    (pc = "tested" /\ files_result.ok)
    => \A n \in Range(files_result.files) \cup {WithoutDotJson(m) : m \in {x \in Scanned : EndsWithDotJson(x)}} :
         Count(files_result.files, n) =
           IF n \o dot_json \in Scanned /\ snapshot.kinds[n \o dot_json] = "file"
           THEN 1 ELSE 0

\* the configured path without its trailing separator
StripTrailingSeparator(p) ==
    IF Len(p) > 0 /\ p[Len(p)] = "/" THEN SubSeq(p, 1, Len(p) - 1) ELSE p

\* C4: the base directory of a running server is the configured path less
\* its trailing separator, and the path a fetch builds for an indexed name
\* is the file <name>.json of the directory that was scanned
C4_BaseDirNamesScannedDir ==
    pc = "serving"
    => /\ shared_state.data_dir = StripTrailingSeparator(args.data_dir)
       /\ \A n \in Range(shared_state.files) :
            Components(serve_path(shared_state.data_dir, n))
              = Components(args.data_dir) \o <<n \o dot_json>>

\* C5: a listing is answered 404 {"error":"not found"} when the index is
\* empty, and otherwise 200 with the array of the index names as strings,
\* each of them once per entry and in index order
C5_ListAnswersIndex ==
    Listing
    => IF shared_state.files = <<>>
       THEN last.resp = JsonError(404, "not found")
       ELSE /\ last.resp.status = 200
            /\ last.resp.ctype = "application/json"
            /\ IsJson(last.resp.body)
            /\ ValueOf(last.resp.body).t = "arr"
            /\ Len(ValueOf(last.resp.body).v) = Len(shared_state.files)
            /\ \A i \in 1..Len(shared_state.files) :
                 ValueOf(last.resp.body).v[i] = StrV(shared_state.files[i])

\* two names, not in alphabetical order, are listed through the alias
C5_Witness ==
    /\ Listing /\ last.req.path = route_api_slash
    /\ shared_state.files = <<name_b, name_a>>
    /\ last.resp.status = 200

\* C6: a fetch of an indexed name whose backing file cannot be read is
\* answered 500 with exactly {"error":"Failed to read file"}
C6_UnreadableIs500 ==
    (Fetch /\ Indexed(Name) /\ ~last.backing.ok)
    => last.resp = JsonError(500, "Failed to read file")

\* C7: a fetch of an indexed name whose backing file is readable but is not
\* JSON is answered 500 with an object whose "error" is the parser's message
C7_InvalidJsonIs500 ==
    (Fetch /\ Indexed(Name) /\ last.backing.ok /\ ~IsJson(last.backing.contents))
    => /\ last.resp.status = 500
       /\ last.resp = JsonError(500, from_str(last.backing.contents).err)
       /\ last.resp # JsonError(500, "Failed to read file")

\* C8: the index of a running server is the one built at startup whatever
\* happened since; a <name>.json that was not there at startup is answered
\* 404 "file not found" and is not listed, and a file that was there and is
\* gone is still listed and its fetch is answered 500 "Failed to read file"
C8_IndexIsStartupSnapshot ==
    /\ pc = "serving" => shared_state.files = files_result.files
    /\ (Fetch /\ Name \o dot_json \notin Scanned /\ last.backing.exists)
       => last.resp = JsonError(404, "file not found")
    /\ Listing
       => \A i \in 1..Len(ValueOf(last.resp.body).v) :
            ValueOf(last.resp.body).v[i].v \o dot_json \in Scanned
    /\ (Fetch /\ Name \o dot_json \in Scanned /\ ~last.backing.exists)
       => /\ Indexed(Name)
          /\ last.resp = JsonError(500, "Failed to read file")

PlainText404 ==
    /\ last.resp.status = 404
    /\ last.resp.ctype = "text/plain"
    /\ ~IsJson(last.resp.body)

Json404 ==
    /\ last.resp.status = 404
    /\ last.resp.ctype = "application/json"
    /\ IsJson(last.resp.body)

\* the JSON 404 of its place: a listing of an empty index, or a fetch of a
\* name that is not indexed
ResourceMiss ==
    \/ Listing /\ shared_state.files = <<>>
    \/ Fetch /\ ~Indexed(Name)

CannotList ==
    ~(Components(args.data_dir) \in DOMAIN fs
      /\ fs[Components(args.data_dir)].kind = "dir"
      /\ fs[Components(args.data_dir)].perm)

SomeEntryFails == \E i \in 1..Len(snapshot.entries) : ~snapshot.entries[i].io_ok
Undecodable(m) == InvalidByte \in Range(m)
NoneQualifies == \A m \in Scanned : ~EndsWithDotJson(m)

\* C10 as stated: get_json_files fails when the directory cannot be listed,
\* when an entry cannot be read or when the name of any entry cannot be
\* decoded; on a directory that can be read and has no .json entry it
\* returns the empty list
C10_Original ==
    pc = "tested"
    => /\ (CannotList \/ SomeEntryFails \/ \E m \in Scanned : Undecodable(m))
          => ~files_result.ok
       /\ (~CannotList /\ ~SomeEntryFails /\ NoneQualifies)
          => files_result.ok /\ files_result.files = <<>>

\* C10: get_json_files fails when the directory cannot be listed, when an
\* entry cannot be read or when the name of an entry with the extension json
\* cannot be decoded; on a directory that can be read and has no .json entry
\* it returns the empty list
C10_FailsOnUnreadable ==
    pc = "tested"
    => /\ (CannotList \/ SomeEntryFails
           \/ \E m \in Scanned : EndsWithDotJson(m) /\ Undecodable(m))
          => ~files_result.ok
       /\ (~CannotList /\ ~SomeEntryFails /\ NoneQualifies)
          => files_result.ok /\ files_result.files = <<>>

\* a .json entry whose name is not text stops the scan
C10_Witness ==
    /\ pc = "tested"
    /\ ~CannotList /\ ~SomeEntryFails
    /\ <<InvalidByte>> \o dot_json \in Scanned
    /\ files_result.err = "Invalid filename encoding"

\* C12: a server that accepts requests has a non-empty index, startup having
\* ended the process when the data directory does not exist, when the scan
\* fails or when it returns no name; so every listing is answered 200 with a
\* non-empty array and never 404 {"error":"not found"}
C12_ServingIndexNotEmpty ==
    /\ pc = "serving"
       => /\ files_result.ok
          /\ files_result.files # <<>>
          /\ shared_state.files # <<>>
    /\ (pc = "exited" /\ files_result = NoResult) => ~Exists(fs, args.data_dir)
    /\ (pc # "start"
        /\ (snapshot = NoSnapshot \/ ~files_result.ok \/ files_result.files = <<>>))
       => pc = "exited"
    /\ Listing
       => /\ last.resp.status = 200
          /\ ValueOf(last.resp.body).t = "arr"
          /\ Len(ValueOf(last.resp.body).v) > 0
          /\ last.resp # JsonError(404, "not found")

\* a listing answered by a running server
C12_Witness ==
    /\ Listing
    /\ last.resp.status = 200
    /\ Len(shared_state.files) = 1


\* what a request has read by itself, as a file system holding nothing else
OwnReads(c) ==
    IF c.seen.ok
    THEN Components(serve_path(shared_state.data_dir, file_param(c.req.path)))
            :> File(TRUE, c.seen.contents)
    ELSE <<>>

\* the response the handler gives when it runs alone on what the request read
Alone(c) == router(shared_state, OwnReads(c), c.req).resp

InFlight(c) == c.stage \in {"received", "found", "read"}

\* C11: under any interleaving of the handlers and of file system changes,
\* every request gets exactly one response (none while in flight, one when
\* done), the process keeps serving and accepting whatever a request ended
\* with, and each response is the one the handler gives alone from the shared
\* index and base directory and the file content that request read itself
C11_RequestsAreIndependent ==
    \A id \in Conns :
        LET c == conns[id]
        IN  /\ c.stage # "idle" => pc = "serving"
            /\ c.stage = "idle" => c.resps = <<>>
            /\ InFlight(c) => c.resps = <<>>
            /\ c.stage = "done" => c.resps = <<Alone(c)>>
            /\ c.stage \in {"found", "read"} => reads_file(shared_state, c.req)
            /\ (pc = "serving" /\ c.stage = "idle")
               => \A req \in ConcRequests : ENABLED accept(id, req)
            /\ pc = "serving" => shared_state = [data_dir |-> state_data_dir(args.data_dir),
                                                 files |-> files_result.files]

\* one request has failed in reading or parsing while another, which read
\* the same file at another moment, is answered with the document
C11_Witness ==
    \E i, j \in Conns :
        /\ i # j
        /\ pc = "serving"
        /\ conns[i].stage = "done"
        /\ conns[i].resps[1].status = 500
        /\ conns[j].stage = "done"
        /\ conns[j].req = conns[i].req
        /\ conns[j].resps[1].status = 200

====
